---- MODULE Spec2Model ----
(***************************************************************************)
(* Language-server transport and connection lifecycle of the Godot tools  *)
(* extension: MessageIO (src/lsp/MessageIO.ts), GDScriptLanguageClient     *)
(* (src/unnamed/part_000) and ClientConnectionManager                      *)
(* (src/lsp/ClientConnectionManager.ts).                                   *)
(*                                                                         *)
(* Everything runs on one event loop.  An action of this module is one     *)
(* macrotask: a socket callback, a timer callback, a user command or the   *)
(* resumption of a handler after an await, together with every listener    *)
(* that the emitted events run synchronously.  The handlers are written as *)
(* operators from a state record S to the state record after the call, so  *)
(* that a call sequence of the source is a composition of operators.       *)
(***************************************************************************)
EXTENDS Integers, Sequences, FiniteSets, TLC

\* ------------------------------------------------------------------ bounds
MaxSockets == 2      \* sockets created over a run (one per MessageIO.connect)
MaxClients == 2      \* GDScriptLanguageClient instances created over a run
MaxAttempts == 2     \* configuration lsp.autoReconnect.attempts
MaxPrompts == 1      \* retry prompts open at the same time
MaxReq == 2          \* request identifiers issued by one client
MaxChunks == 3       \* frames one client receives with their order recorded
MaxFrames == 3       \* messages one client hands to MessageIOWriter.write
MAX_MESSAGE_CACHE == 2   \* MessageIO.MAX_MESSAGE_CACHE, 100 in the source,
                         \* scaled down so that the outbox can fill

\* ------------------------------------------------------- program constants
ServerPort == 6008          \* configuration lsp.serverPort (ambiguous port)
NoSocket == 0               \* MessageIO.socket = null
NoClient == 0               \* capabilitiesResolver = null
NoPort == -1                \* GDScriptLanguageClient.port = -1
FreePort == 6010            \* the port get_free_port() returns

AutoReconnectEnabled == TRUE   \* configuration lsp.autoReconnect.enabled

\* The slots for sockets and clients; a run uses as many as `lim` allows.
Sockets == 1..(MaxSockets + 2)
Clients == 1..(MaxClients + 2)
ReqIds == 1..MaxReq

Methods == {"textDocument/hover", "workspace/symbol",
            "workspace/didChangeWatchedFiles", "shutdown"}

VARIABLES
    socks,    \* the net.Socket objects created by MessageIO.connect
    cl,       \* the GDScriptLanguageClient instances, each with its MessageIO
    mgr,      \* the fields of ClientConnectionManager; with them retryPorts,
              \* the ports of the retries since reconnectionAttempts was 0,
              \* and declaredFor, the client last declared CONNECTED
    hconn,    \* per client: where the CONNECTED handler it started is suspended
    hdisc,    \* the DISCONNECTED handler suspended in create_new_client
    wsCheck,  \* per client: the socket whose changeWorkspace notification
              \* check_workspace is suspended for, on get_project_dir
    lim,      \* how many sockets and clients the run may create
    last,     \* the macrotask that ran last
    out       \* the events emitted, in order, by the macrotask that ran last

vars == <<socks, cl, mgr, hconn, hdisc, wsCheck, lim, last, out>>

\* The state as one record, and the state after a macrotask.
Cur ==
    [socks |-> socks, cl |-> cl, mgr |-> mgr,
     hconn |-> hconn, hdisc |-> hdisc, wsCheck |-> wsCheck, out |-> <<>>]

Emit(S, e) == [S EXCEPT !.out = Append(@, e)]

\* A socket that has not been created.
FreshSocket ==
    [owner |-> NoClient, state |-> "none", port |-> NoPort,
     wire |-> <<>>, since |-> 0]

\* new GDScriptLanguageClient(): the fields after the constructor.
FreshClient ==
    [exists |-> TRUE, status |-> "PENDING", rejected |-> FALSE, lastPortTried |-> NoPort,
     port |-> NoPort, target |-> "EDITOR", disposed |-> FALSE,
     started |-> FALSE, sent |-> {}, removed |-> [i \in ReqIds |-> 0],
     nextId |-> 0, socket |-> NoSocket, newest |-> NoSocket,
     messageCache |-> <<>>, draining |-> FALSE, frames |-> 0,
     links |-> {}, arrived |-> 0, buffer |-> <<>>, awaiting |-> {},
     delivered |-> <<>>]

\* A client instance that has not been constructed.
NoClientYet == [FreshClient EXCEPT !.exists = FALSE]

\* socket.removeAllListeners(); socket.destroy(): no callback of the socket
\* runs any more and nothing refers to it.
Destroyed(sk, s) == [sk EXCEPT ![s] = [FreshSocket EXCEPT !.state = "dead"]]

Commit(T, act) ==
    /\ socks' = T.socks
    /\ cl' = T.cl
    /\ mgr' = T.mgr
    /\ hconn' = T.hconn
    /\ hdisc' = T.hdisc
    /\ wsCheck' = T.wsCheck
    /\ out' = T.out
    /\ last' = act
    /\ lim' = lim


\* ------------------------------------------------ GDScriptLanguageClient

\* How often each identifier's pending entry has been removed, after the
\* entries in `gone` were removed.
CountRemoved(rem, gone) ==
    [i \in ReqIds |-> IF i \in gone THEN rem[i] + 1 ELSE rem[i]]

\* A disposeClient that leaves the pending-request table as it is.
disposeClient_keeps_table(S, c) ==
    LET s == S.cl[c].socket
        S1 == [S EXCEPT !.cl[c].disposed = TRUE,
                        !.cl[c].socket = NoSocket,
                        !.cl[c].messageCache = <<>>,
                        !.socks = IF s # NoSocket THEN Destroyed(@, s) ELSE @]
    IN Emit(S1, "disposeClient")

\* A disposeClient that destroys io.socket without testing it.
disposeClient_unguarded(S, c) ==
    LET s == S.cl[c].socket
        S1 == [S EXCEPT !.cl[c].removed = CountRemoved(@, S.cl[c].sent),
                        !.cl[c].sent = {},
                        !.cl[c].links = {},
                        !.cl[c].disposed = TRUE]
    IN IF s = NoSocket THEN Emit(S1, "TypeError")
       ELSE Emit([S1 EXCEPT !.cl[c].socket = NoSocket,
                            !.cl[c].messageCache = <<>>,
                            !.socks = Destroyed(@, s)], "disposeClient")

\* disposeClient; "sentMessages.clear" marks a table that held entries.
disposeClient(S, c) ==
    LET s == S.cl[c].socket
        S1 == [S EXCEPT !.cl[c].removed = CountRemoved(@, S.cl[c].sent),
                        !.cl[c].sent = {},
                        !.cl[c].links = {},
                        !.cl[c].disposed = TRUE,
                        !.cl[c].socket = NoSocket,
                        !.cl[c].messageCache = <<>>,
                        !.socks = IF s # NoSocket THEN Destroyed(@, s) ELSE @]
    IN Emit(IF S.cl[c].sent # {} THEN Emit(S1, "sentMessages.clear") ELSE S1,
            "disposeClient")

\* ------------------------------------------------ ClientConnectionManager

\* LanguageClient.needsStart() of the library: true until start() is called.
needsStart(S, c) == ~S.cl[c].started

\* The end of on_client_status_changed: statusChanged.fire, update_status_widget.
\* mgr.fired is the value the listeners of onStatusChanged were given last.
fireStatus(S) == Emit([S EXCEPT !.mgr.fired = S.mgr.status], "statusChanged")

\* What the CONNECTED handler of client c does once the client is started
\* (both the try and the catch branch), followed by the end of the handler.
\* declaredFor records whose handler it was.
declareConnected(S, c, ready) ==
    LET S1 == [S EXCEPT !.mgr.retry = FALSE,
                        !.mgr.reconnectionAttempts = 0,
                        !.mgr.retryPorts = <<>>,
                        !.mgr.connectedToLSP = TRUE,
                        !.mgr.status = "CONNECTED",
                        !.mgr.declaredFor = c]
    IN fireStatus(IF ready THEN Emit(S1, "lspReady") ELSE S1)

\* waitForCapabilities called by the CONNECTED handler of client c.
waitForCapabilities(S, c) ==
    IF S.mgr.capabilitiesReceived
    THEN declareConnected([S EXCEPT !.hconn[c] = "done"], c, TRUE)
    ELSE [S EXCEPT !.mgr.capabilitiesResolver = c, !.hconn[c] = "caps"]

\* create_new_client up to its await of client.dispose().
create_new_client_begin(S) ==
    LET c == S.mgr.client
    IN [disposeClient(S, c) EXCEPT !.hdisc = [pending |-> @.pending + 1,
                                              port |-> S.cl[c].port]]

\* The slot of the next client instance.
FreeClient(S) ==
    CHOOSE n \in Clients :
        /\ ~S.cl[n].exists
        /\ \A m \in Clients : m < n => S.cl[m].exists

\* A create_new_client that keeps the client instance it has.
create_new_client_end_reuses(S) ==
    [S EXCEPT !.hdisc = [pending |-> @.pending - 1, port |-> NoPort]]

\* create_new_client after the await.
create_new_client_end(S) ==
    LET n == FreeClient(S)
    IN [S EXCEPT !.cl[n] = [FreshClient EXCEPT !.port = S.hdisc.port],
                 !.mgr.client = n,
                 !.hdisc = [pending |-> @.pending - 1, port |-> NoPort]]

\* on_client_status_changed(status), called for the event of client c, up to
\* its first await or to its end.
on_client_status_changed(S, c, status) ==
    CASE status = "PENDING" ->
           fireStatus([S EXCEPT !.mgr.status = "PENDING"])
      [] status = "CONNECTED" ->
           LET S1 == fireStatus([S EXCEPT !.mgr.capabilitiesReceived = FALSE,
                                          !.mgr.capabilitiesResolver = NoClient,
                                          !.mgr.status = "INITIALIZING_CLIENT"])
           IN IF needsStart(S1, S1.mgr.client)
              THEN [S1 EXCEPT !.cl[S1.mgr.client].started = TRUE,
                              !.hconn[c] = "start"]
              ELSE declareConnected(S1, c, FALSE)
      [] status = "DISCONNECTED" ->
           create_new_client_begin(
               Emit([S EXCEPT !.mgr.connectedToLSP = FALSE], "lspDisconnected"))
      [] status = "REJECTED" ->
           fireStatus([S EXCEPT !.mgr.status = "WRONG_WORKSPACE",
                                !.mgr.retry = FALSE])

\* A DISCONNECTED case that leaves the retry flag as it finds it.
on_client_disconnected_end_keeps_flag(S) ==
    LET S1 == create_new_client_end(S)
        S2 == [S1 EXCEPT !.mgr.capabilitiesReceived = FALSE,
                         !.mgr.capabilitiesResolver = NoClient,
                         !.mgr.status =
                             IF S1.mgr.retry
                             THEN IF S1.cl[S1.mgr.client].port # NoPort
                                  THEN "INITIALIZING_LSP" ELSE "RETRYING"
                             ELSE "DISCONNECTED"]
    IN fireStatus(S2)

\* The DISCONNECTED case after `await this.create_new_client()`.
on_client_disconnected_end(S) ==
    LET S1 == create_new_client_end(S)
        S2 == [S1 EXCEPT !.mgr.capabilitiesReceived = FALSE,
                         !.mgr.capabilitiesResolver = NoClient,
                         !.mgr.status =
                             IF S1.mgr.retry
                             THEN IF S1.cl[S1.mgr.client].port # NoPort
                                  THEN "INITIALIZING_LSP" ELSE "RETRYING"
                             ELSE "DISCONNECTED",
                         !.mgr.retry = TRUE]
    IN fireStatus(S2)

\* set status(v): store, then events.emit("status", v).
set_status(S, c, v) ==
    LET S1 == Emit([S EXCEPT !.cl[c].status = v], "status")
    IN IF S.cl[c].disposed THEN S1 ELSE on_client_status_changed(S1, c, v)


\* ------------------------------------------------------------- MessageIO

\* The slot of the next socket.
FreeSocket(sk) ==
    CHOOSE s \in Sockets :
        /\ sk[s].state = "none"
        /\ \A r \in Sockets : r < s => sk[r].state # "none"

\* A MessageIO.connect that keeps the outbox.
io_connect_keeps_outbox(S, c, p) ==
    LET old == S.cl[c].socket
        sk == IF old # NoSocket THEN Destroyed(S.socks, old) ELSE S.socks
        s == FreeSocket(sk)
    IN [S EXCEPT !.socks = [sk EXCEPT ![s] = [owner |-> c, state |-> "connecting",
                                             port |-> p, wire |-> <<>>,
                                             since |-> S.cl[c].frames]],
                 !.cl[c].socket = NoSocket,
                 !.cl[c].newest = s,
                 !.out = Append(@, "io.connect")]

\* MessageIO.connect(host, port): the call itself; the socket callbacks
\* it registers are the Sock... actions below. `since` is the number of
\* messages the client had handed to the writer when the call began.
io_connect(S, c, p) ==
    LET old == S.cl[c].socket
        sk == IF old # NoSocket THEN Destroyed(S.socks, old) ELSE S.socks
        s == FreeSocket(sk)
        stale == Len(S.cl[c].messageCache) > 0
    IN [S EXCEPT !.socks = [sk EXCEPT ![s] = [owner |-> c, state |-> "connecting",
                                             port |-> p, wire |-> <<>>,
                                             since |-> S.cl[c].frames]],
                 !.cl[c].socket = NoSocket,
                 !.cl[c].newest = s,
                 !.cl[c].messageCache = <<>>,
                 !.out = @ \o (IF stale THEN <<"clear">> ELSE <<>>)
                           \o <<"io.connect">>]

\* ------------------------------------------------ GDScriptLanguageClient

\* The port GDScriptLanguageClient.connect passes to the transport.
SelectPort(S, c, target, tryAlternatePort) ==
    LET p == IF S.cl[c].port # NoPort THEN S.cl[c].port ELSE ServerPort
        lastPort == S.cl[c].lastPortTried
    IN IF target = "EDITOR" /\ p \in {6005, 6008}
       THEN IF tryAlternatePort /\ lastPort = 6005 THEN 6008
            ELSE IF tryAlternatePort /\ lastPort = 6008 THEN 6005
            ELSE 6005
       ELSE p

client_connect(S, c, target, tryAlternatePort) ==
    LET S1 == set_status([S EXCEPT !.cl[c].rejected = FALSE,
                                   !.cl[c].target = target], c, "PENDING")
        p == SelectPort(S1, c, target, tryAlternatePort)
    IN io_connect([S1 EXCEPT !.cl[c].lastPortTried = p], c, p)

on_connected(S, c) == set_status(S, c, "CONNECTED")

on_disconnected(S, c) ==
    IF S.cl[c].rejected
    THEN set_status(S, c, "REJECTED")
    ELSE set_status(S, c, "DISCONNECTED")

\* io.emit("connected") / io.emit("disconnected"): the client's bound
\* handlers are registered until disposeClient removes them.
emit_connected(S, c) ==
    LET S1 == Emit(S, "connected")
    IN IF S.cl[c].disposed THEN S1 ELSE on_connected(S1, c)

emit_disconnected(S, c) ==
    LET S1 == Emit(S, "disconnected")
    IN IF S.cl[c].disposed THEN S1 ELSE on_disconnected(S1, c)

\* ------------------------------------------- MessageIO socket callbacks

\* resolve() / reject() of the promise connect returned for a socket: it
\* is pending exactly as long as the socket is connecting.
Settle(S, was, how) == IF was = "connecting" THEN Emit(S, how) ELSE S

\* socket.on("connect")
sock_on_connect(S, s) ==
    LET c == S.socks[s].owner
        S1 == [S EXCEPT !.socks[s].state = "open",
                        !.socks[s].wire = @ \o S.cl[c].messageCache,
                        !.cl[c].socket = s,
                        !.cl[c].messageCache = <<>>,
                        !.out = @ \o [i \in 1..Len(S.cl[c].messageCache) |->
                                          "socket.write"]]
    IN Settle(emit_connected(S1, c), S.socks[s].state, "resolve")

\* The connectionTimeout callback.
sock_on_connect_timeout(S, s) ==
    Settle([S EXCEPT !.socks = Destroyed(@, s)], S.socks[s].state, "reject")

\* An error handler that leaves the socket and its listeners in place, so
\* that the close callback of the same socket still runs.
sock_on_error_keeps_listeners(S, s) ==
    LET c == S.socks[s].owner
        S1 == [S EXCEPT !.socks[s].state = "closing",
                        !.cl[c].socket = IF @ = s THEN NoSocket ELSE @]
    IN Settle(emit_disconnected(S1, c), S.socks[s].state, "reject")

\* socket.on("error")
sock_on_error(S, s) ==
    LET c == S.socks[s].owner
        S1 == [S EXCEPT !.socks = Destroyed(@, s),
                        !.cl[c].socket = IF @ = s THEN NoSocket ELSE @]
    IN Settle(emit_disconnected(S1, c), S.socks[s].state, "reject")

\* socket.on("close")
sock_on_close(S, s) ==
    LET c == S.socks[s].owner
        S1 == [S EXCEPT !.socks = Destroyed(@, s),
                        !.cl[c].socket = IF @ = s THEN NoSocket ELSE @]
        S2 == emit_disconnected(S1, c)
    IN IF S2.cl[c].socket = NoSocket
       THEN Settle(S2, S.socks[s].state, "reject") ELSE S2

\* ------------------------------------------------ ClientConnectionManager

show_retrying_prompt(S) == Emit([S EXCEPT !.mgr.prompts = @ + 1], "prompt")

\* A retry_connect_client that allows one attempt more.
MayRetry_one_more(S) ==
    AutoReconnectEnabled /\ S.mgr.reconnectionAttempts <= MaxAttempts

\* Whether retry_connect_client makes another attempt.
MayRetry(S) ==
    AutoReconnectEnabled /\ S.mgr.reconnectionAttempts <= MaxAttempts - 1

\* A retry_connect_client that does not compare the counter with the
\* configured maximum.
retry_connect_client_unbounded(S) ==
    LET n == S.mgr.reconnectionAttempts + 1
        c == S.mgr.client
        S1 == client_connect([S EXCEPT !.mgr.reconnectionAttempts = n],
                             c, S.mgr.target, n % 2 = 0)
    IN [S1 EXCEPT !.mgr.retry = TRUE,
                  !.mgr.retryPorts = Append(@, S1.cl[c].lastPortTried)]

retry_connect_client(S) ==
    IF MayRetry(S)
    THEN LET n == S.mgr.reconnectionAttempts + 1
             c == S.mgr.client
             S1 == client_connect([S EXCEPT !.mgr.reconnectionAttempts = n],
                                  c, S.mgr.target, n % 2 = 0)
         IN [S1 EXCEPT !.mgr.retry = TRUE,
                       !.mgr.retryPorts = Append(@, S1.cl[c].lastPortTried)]
    ELSE show_retrying_prompt([S EXCEPT !.mgr.retry = FALSE,
                                        !.mgr.status = "DISCONNECTED"])

retry_callback(S) == IF S.mgr.retry THEN retry_connect_client(S) ELSE S

\* connect_to_language_server from `this.reconnectionAttempts = 0` on:
\* at once with lsp.headless off, after `await start_language_server()`
\* with lsp.headless on.
connect_to_language_server_end(S) ==
    client_connect([S EXCEPT !.mgr.reconnectionAttempts = 0,
                             !.mgr.retryPorts = <<>>],
                   S.mgr.client, S.mgr.target, FALSE)

\* stop_language_server: killSubProcesses("LSP").
stop_language_server(S) == [S EXCEPT !.mgr.lsp = "none"]

\* start_language_server up to `await get_project_dir()`, called by `who`:
\* "conn" is connect_to_language_server, which awaits the call, "cmd" the
\* startLanguageServer command, which does not.
start_language_server(S, who) ==
    [stop_language_server(S) EXCEPT !.mgr.hstart[who] = "project"]

\* The return of start_language_server to its caller.
start_language_server_return(S, who) ==
    LET S1 == [S EXCEPT !.mgr.hstart[who] = "none"]
    IN IF who = "conn" THEN connect_to_language_server_end(S1) ELSE S1

\* start_language_server from the project directory to
\* `await get_free_port()`; ok: the workspace is a Godot project and the
\* executable is valid and recent enough.
start_language_server_validated(S, who, ok) ==
    IF ok THEN [S EXCEPT !.mgr.hstart[who] = "port"]
    ELSE start_language_server_return(S, who)

\* start_language_server after `await get_free_port()`: the port is
\* stored in the client of that moment and the process is spawned.
start_language_server_spawn(S, who) ==
    start_language_server_return(
        Emit([S EXCEPT !.cl[S.mgr.client].port = FreePort,
                       !.mgr.lsp = "running"], "spawn"), who)

\* The startLanguageServer command.
startLanguageServer(S) ==
    LET S1 == start_language_server(S, "cmd")
    IN client_connect([S1 EXCEPT !.mgr.reconnectionAttempts = 0,
                                 !.mgr.retryPorts = <<>>,
                                 !.mgr.target = "HEADLESS"],
                      S1.mgr.client, "HEADLESS", FALSE)

connect_to_language_server(S) ==
    LET c == S.mgr.client
        S1 == [S EXCEPT !.cl[c].port = NoPort,
                        !.mgr.target = "EDITOR"]
    IN IF S.mgr.headless
       THEN start_language_server([S1 EXCEPT !.mgr.target = "HEADLESS"], "conn")
       ELSE connect_to_language_server_end(S1)

on_status_item_click(S) ==
    CASE S.mgr.status \in {"DISCONNECTED", "WRONG_WORKSPACE"} ->
           retry_connect_client(S)
      [] S.mgr.status = "RETRYING" -> show_retrying_prompt(S)
      [] OTHER -> S

\* onCapabilitiesReceived: the resolver, when set, resumes the CONNECTED
\* handler that installed it.
onCapabilitiesReceived(S) ==
    LET h == S.mgr.capabilitiesResolver
        S1 == [S EXCEPT !.mgr.capabilitiesReceived = TRUE,
                        !.mgr.capabilitiesResolver = NoClient]
    IN IF h # NoClient
       THEN declareConnected([S1 EXCEPT !.hconn[h] = "done"], h, TRUE)
       ELSE S1

\* A capabilities timer that gives the connection up instead.
capabilities_timeout_gives_up(S, c) ==
    fireStatus([S EXCEPT !.mgr.capabilitiesResolver = NoClient,
                         !.hconn[c] = "done",
                         !.mgr.status = "DISCONNECTED"])

\* The timeout callback of waitForCapabilities, and the catch branch it
\* leads to in the CONNECTED handler of client c.
capabilities_timeout(S, c) ==
    declareConnected([S EXCEPT !.mgr.capabilitiesResolver = NoClient,
                               !.hconn[c] = "done"], c, TRUE)

\* The CONNECTED handler of client c after `await this.client.start()`.
client_start_settled(S, c, ok) ==
    IF ok THEN waitForCapabilities(S, c)
    ELSE declareConnected([S EXCEPT !.hconn[c] = "done"], c, TRUE)

\* ------------------------------------------------ GDScriptLanguageClient

\* check_workspace after `await get_project_dir()`, when the paths differ.
\* With no socket, resetAndDestroy is called on null and the call throws.
check_workspace_end(S, c) ==
    LET s == S.cl[c].socket
        S0 == [S EXCEPT !.wsCheck[c] = NoSocket]
    IN IF s = NoSocket
       THEN Emit(S0, "TypeError")
       ELSE [S0 EXCEPT !.socks[s].state = "closing",
                       !.cl[c].rejected = TRUE]

notification_filter(S, c, s, method, differs) ==
    CASE method = "gdscript_client/changeWorkspace" ->
           IF differs THEN [S EXCEPT !.wsCheck[c] = s] ELSE S
      [] method = "gdscript/capabilities" -> onCapabilitiesReceived(S)
      [] OTHER -> S


\* A request_filter that stores the entry of the request before it looks
\* at the rejected flag.
request_filter_records(S, c, id, method) ==
    [st |-> [S EXCEPT !.cl[c].sent = @ \cup {id}],
     pass |-> IF S.cl[c].rejected THEN method = "shutdown"
              ELSE method \notin {"workspace/didChangeWatchedFiles",
                                  "workspace/symbol"}]

\* request_filter: the state after the call and whether the request is kept.
request_filter(S, c, id, method) ==
    IF S.cl[c].rejected
    THEN [st |-> S, pass |-> method = "shutdown"]
    ELSE [st |-> [S EXCEPT !.cl[c].sent = @ \cup {id},
                           !.cl[c].links =
                               IF method = "textDocument/documentLink"
                               THEN @ \cup {id} ELSE @ \ {id}],
          pass |-> method \notin {"workspace/didChangeWatchedFiles",
                                  "workspace/symbol"}]

\* io.requestFilter: request_filter until disposeClient puts the identity back.
io_requestFilter(S, c, id, method) ==
    IF S.cl[c].disposed THEN [st |-> S, pass |-> TRUE]
    ELSE request_filter(S, c, id, method)

\* A response_filter that reads the entry of message.id and keeps it.
response_filter_keeps(S, c, id) == S

\* response_filter: the entry of message.id is read and deleted.
response_filter(S, c, id) ==
    [S EXCEPT !.cl[c].removed = CountRemoved(@, S.cl[c].sent \cap {id}),
              !.cl[c].sent = @ \ {id},
              !.cl[c].links = @ \ {id}]

\* Whether response_filter awaits asynchronous work for the response to
\* id: the request was a textDocument/documentLink and the result has
\* uid:// targets to resolve.
filter_awaits(S, c, id, uids) == uids /\ id \in S.cl[c].sent \cap S.cl[c].links

\* ------------------------------------------------------------- MessageIO

\* A MessageIO.write that lets the outbox grow one frame past the limit.
io_write_one_more(S, c, f, canContinue) ==
    LET s == S.cl[c].socket
        S0 == Emit(S, "io.write")
        cached == IF Len(S.cl[c].messageCache) <= MAX_MESSAGE_CACHE
                  THEN [S0 EXCEPT !.cl[c].messageCache = Append(@, f)]
                  ELSE Emit(S0, "drop")
    IN IF s # NoSocket
       THEN IF S.cl[c].draining THEN cached
            ELSE [Emit(S0, "socket.write") EXCEPT
                      !.socks[s].wire = Append(@, f),
                      !.cl[c].draining = ~canContinue]
       ELSE cached

\* MessageIO.write(message) for frame f; canContinue is what socket.write
\* returns.
io_write(S, c, f, canContinue) ==
    LET s == S.cl[c].socket
        S0 == Emit(S, "io.write")
        cached == IF Len(S.cl[c].messageCache) < MAX_MESSAGE_CACHE
                  THEN [S0 EXCEPT !.cl[c].messageCache = Append(@, f)]
                  ELSE Emit(S0, "drop")
    IN IF s # NoSocket
       THEN IF S.cl[c].draining THEN cached
            ELSE [Emit(S0, "socket.write") EXCEPT
                      !.socks[s].wire = Append(@, f),
                      !.cl[c].draining = ~canContinue]
       ELSE cached

\* MessageIOWriter.write(msg)
\* The messages a client hands to the writer are numbered in the order of
\* the calls; the frame of a message carries its number.
writer_write(S, c, id, method, canContinue) ==
    LET n == S.cl[c].frames + 1
        f == io_requestFilter([S EXCEPT !.cl[c].frames = n], c, id, method)
    IN IF f.pass THEN io_write(f.st, c, n, canContinue) ELSE f.st

\* MessageIOReader.processMessages for one frame that carries an id, when
\* its filter awaits no asynchronous work and no other call is suspended.
reader_response(S, c, id) == Emit(response_filter(S, c, id), "deliver")

\* this.callback(json) for the frame that arrived as number n.
reader_callback(S, c, n) ==
    Emit([S EXCEPT !.cl[c].delivered = Append(@, n)], "deliver")

\* One call of MessageIOReader.processMessages, from the head of its loop
\* to the await of a filter that has asynchronous work, or to the end of
\* the buffer. A frame is [n, id, uids, bad, discard]; JSON.parse throws
\* on the payload of a bad frame, which ends the call: on_data neither
\* awaits nor catches the promise, and the frames behind stay in the
\* buffer. discard: the filter installed in io.responseFilter returns
\* false for the frame; the loop is left by `return`.
RECURSIVE processMessages(_, _)
processMessages(S, c) ==
    IF S.cl[c].buffer = <<>> THEN S
    ELSE LET m == Head(S.cl[c].buffer)
             S1 == [S EXCEPT !.cl[c].buffer = Tail(@)]
             S2 == response_filter(S1, c, m.id)
         IN IF m.bad THEN Emit(S1, "SyntaxError")
            ELSE IF m.discard THEN Emit(S2, "rx.discarded")
            ELSE IF filter_awaits(S1, c, m.id, m.uids)
            THEN [S2 EXCEPT !.cl[c].awaiting = @ \cup {m.n}]
            ELSE processMessages(reader_callback(S2, c, m.n), c)

\* MessageIOReader.on_data(chunk): the chunk holds the frames for the
\* responses `ids`, with uid:// targets or not; `bad`: the payload of the
\* first frame is not JSON; `discard`: the filter returns false for the
\* first frame.
reader_on_data(S, c, ids, uids, bad, discard) ==
    LET n0 == S.cl[c].arrived
        ms == [k \in 1..Len(ids) |->
                  [n |-> n0 + k, id |-> ids[k], uids |-> uids,
                   bad |-> bad /\ k = 1, discard |-> discard /\ k = 1]]
    IN processMessages([S EXCEPT !.cl[c].arrived = n0 + Len(ids),
                                 !.cl[c].buffer = @ \o ms], c)

\* processMessages after `await this.io.responseFilter(json)` for frame n.
reader_filter_done(S, c, n) ==
    processMessages(reader_callback([S EXCEPT !.cl[c].awaiting = @ \ {n}], c, n), c)

\* ------------------------------------------------------------ the system

\* The macrotask that ran: what, of which client, on which socket (and the
\* state it found it in), about which request.
Act(a, c, s, i) ==
    [act |-> a, c |-> c, s |-> s, id |-> i,
     was |-> IF s = NoSocket THEN "none" ELSE socks[s].state]

\* The manager after its constructor created the first client, before it
\* calls connect_to_language_server.
Constructed ==
    [socks |-> [s \in Sockets |-> FreshSocket],
     cl |-> [c \in Clients |-> IF c = 1 THEN FreshClient ELSE NoClientYet],
     mgr |-> [client |-> 1, status |-> "INITIALIZING",
              fired |-> "INITIALIZING", retry |-> FALSE,
              reconnectionAttempts |-> 0, target |-> "EDITOR",
              capabilitiesReceived |-> FALSE, capabilitiesResolver |-> NoClient,
              connectedToLSP |-> FALSE, prompts |-> 0,
              retryPorts |-> <<>>, declaredFor |-> NoClient,
              headless |-> FALSE, lsp |-> "none",
              hstart |-> [conn |-> "none", cmd |-> "none"]],
     hconn |-> [c \in Clients |-> "none"],
     hdisc |-> [pending |-> 0, port |-> NoPort],
     wsCheck |-> [c \in Clients |-> NoSocket],
     out |-> <<>>]

\* The state after `new ClientConnectionManager(context)`, with the
\* configuration lsp.headless off.
Started ==
    LET T == connect_to_language_server(Constructed)
    IN /\ socks = T.socks
       /\ cl = T.cl
       /\ mgr = T.mgr
       /\ hconn = T.hconn
       /\ hdisc = T.hdisc
       /\ wsCheck = T.wsCheck
       /\ out = T.out
       /\ last = [act |-> "constructor", c |-> 1, s |-> NoSocket, id |-> 0,
                   was |-> "none"]

Init == Started /\ lim = [sockets |-> MaxSockets, clients |-> MaxClients]

\* One more socket and one more client: room for two retries after the
\* first attempt, each on a client of its own.
InitWide ==
    Started /\ lim = [sockets |-> MaxSockets + 1, clients |-> MaxClients + 1]

\* Two more of each: room for the start-up attempt, every retry that
\* lsp.autoReconnect.attempts allows and one more.
InitFail ==
    Started /\ lim = [sockets |-> MaxSockets + 2, clients |-> MaxClients + 2]

\* The state after the constructor with lsp.headless on or off.
InitHeadless ==
    /\ \E h \in BOOLEAN :
           LET T == connect_to_language_server(
                        [Constructed EXCEPT !.mgr.headless = h])
           IN /\ socks = T.socks
              /\ cl = T.cl
              /\ mgr = T.mgr
              /\ hconn = T.hconn
              /\ hdisc = T.hdisc
              /\ wsCheck = T.wsCheck
              /\ out = T.out
    /\ last = [act |-> "constructor", c |-> 1, s |-> NoSocket, id |-> 0,
               was |-> "none"]
    /\ lim = [sockets |-> MaxSockets + 1, clients |-> MaxClients]

\* A data frame of socket s reaches the reader and the client's filters.
Receiving(s) ==
    /\ socks[s].state = "open"
    /\ cl[socks[s].owner].started
    /\ ~cl[socks[s].owner].disposed

\* The resources retry_connect_client needs within the bounds.
CanConnect == Cardinality({s \in Sockets : socks[s].state # "none"}) < lim.sockets

CanRetry == IF MayRetry(Cur) THEN CanConnect ELSE mgr.prompts < MaxPrompts

\* ---- the socket's events
SockConnect(s) ==
    /\ socks[s].state = "connecting"
    /\ Commit(sock_on_connect(Cur, s), Act("SockConnect", socks[s].owner, s, 0))

SockConnectTimeout(s) ==
    /\ socks[s].state = "connecting"
    /\ Commit(sock_on_connect_timeout(Cur, s),
              Act("SockConnectTimeout", socks[s].owner, s, 0))

SockError(s) ==
    /\ socks[s].state \in {"connecting", "open"}
    /\ Commit(sock_on_error(Cur, s), Act("SockError", socks[s].owner, s, 0))

SockClose(s) ==
    /\ socks[s].state \in {"connecting", "open", "closing"}
    /\ Commit(sock_on_close(Cur, s), Act("SockClose", socks[s].owner, s, 0))

\* ---- the manager's timer, its suspended handlers, the user
\* A callback that finds nothing to do leaves the state as it is.
RetryTick ==
    IF mgr.retry
    THEN /\ CanRetry
         /\ Commit(retry_callback(Cur), Act("RetryTick", mgr.client, 0, 0))
    ELSE UNCHANGED vars

DisconnectedResume ==
    /\ hdisc.pending > 0
    /\ Cardinality({n \in Clients : cl[n].exists}) < lim.clients
    /\ Commit(on_client_disconnected_end(Cur),
              Act("DisconnectedResume", mgr.client, 0, 0))

ClientStartSettled(c, ok) ==
    /\ hconn[c] = "start"
    /\ Commit(client_start_settled(Cur, c, ok), Act("ClientStartSettled", c, 0, 0))

CapabilitiesTimeout(c) ==
    /\ hconn[c] = "caps"
    /\ Commit(capabilities_timeout(Cur, c), Act("CapabilitiesTimeout", c, 0, 0))

StatusItemClick ==
    IF mgr.status \in {"DISCONNECTED", "WRONG_WORKSPACE", "RETRYING"}
    THEN /\ mgr.status \in {"DISCONNECTED", "WRONG_WORKSPACE"} => CanRetry
         /\ mgr.status = "RETRYING" => mgr.prompts < MaxPrompts
         /\ Commit(on_status_item_click(Cur),
                   Act("StatusItemClick", mgr.client, 0, 0))
    ELSE UNCHANGED vars

PromptAnswer(item) ==
    /\ mgr.prompts > 0
    /\ item # "Ignore" => CanConnect /\ mgr.hstart.conn = "none"
    /\ LET S == [Cur EXCEPT !.mgr.prompts = @ - 1]
       IN Commit(IF item = "Ignore" THEN S ELSE connect_to_language_server(S),
                 Act("PromptAnswer", mgr.client, 0, 0))

\* ---- the headless server
Callers == {"conn", "cmd"}

StartServerValidated(who, ok) ==
    /\ mgr.hstart[who] = "project"
    /\ (who = "conn" /\ ~ok) => CanConnect
    /\ Commit(start_language_server_validated(Cur, who, ok),
              Act("StartServerValidated", mgr.client, 0, 0))

StartServerSpawn(who) ==
    /\ mgr.hstart[who] = "port"
    /\ who = "conn" => CanConnect
    /\ Commit(start_language_server_spawn(Cur, who),
              Act("StartServerSpawn", mgr.client, 0, 0))

StartLanguageServerCommand ==
    /\ mgr.hstart.cmd = "none"
    /\ CanConnect
    /\ Commit(startLanguageServer(Cur),
              Act("startLanguageServer", mgr.client, 0, 0))

\* ---- the server's notifications
Notification(s, method, differs) ==
    /\ Receiving(s)
    /\ wsCheck[socks[s].owner] = NoSocket
    /\ IF method = "gdscript_client/changeWorkspace" /\ ~differs
       THEN UNCHANGED vars
       ELSE Commit(notification_filter(Cur, socks[s].owner, s, method, differs),
                   Act(method, socks[s].owner, s, 0))

CheckWorkspaceResume(c) ==
    /\ wsCheck[c] # NoSocket
    /\ Commit(check_workspace_end(Cur, c), Act("CheckWorkspaceResume", c, 0, 0))

\* ---- requests and responses
SendRequest(c, method, canContinue) ==
    /\ cl[c].exists
    /\ cl[c].started
    /\ cl[c].nextId < MaxReq
    /\ LET id == cl[c].nextId + 1
       IN Commit(writer_write([Cur EXCEPT !.cl[c].nextId = id], c, id, method,
                              canContinue),
                 Act(method, c, 0, id))

Response(s, id) ==
    /\ Receiving(s)
    /\ Commit(reader_response(Cur, socks[s].owner, id),
              Act("Response", socks[s].owner, s, id))

\* A request of the server (a message with both id and method) arrives:
\* processMessages tests "id" in json first, so the message is handed to
\* io.responseFilter like a response, then to the callback.
ServerRequest(s, id) ==
    /\ Receiving(s)
    /\ Commit(reader_response(Cur, socks[s].owner, id),
              Act("ServerRequest", socks[s].owner, s, id))

\* send_request, by what the underlying sendRequest does. The try block
\* returns the promise without awaiting it: the catch clause with log.warn
\* is entered only when sendRequest throws before it returns a promise;
\* when the promise rejects later, the promise that send_request returned
\* to its caller rejects with it.
send_request(S, outcome) ==
    IF outcome = "throws"
    THEN Emit(S, "log.warn")
    ELSE Emit(Emit(S, "sendRequest.reject"), "send_request.reject")

\* The server answers a pending request with an error response: the
\* pending sendRequest rejects.
ResponseError(s, id) ==
    /\ Receiving(s)
    /\ id \in cl[socks[s].owner].sent
    /\ Commit(send_request(reader_response(Cur, socks[s].owner, id), "rejects"),
              Act("ResponseError", socks[s].owner, s, id))

\* The library sends a notification (a message without id) through the
\* writer: request_filter stores it under the key undefined, here 0.
SendNotification(c, canContinue) ==
    /\ cl[c].exists
    /\ cl[c].started
    /\ cl[c].frames < MaxFrames
    /\ Commit(writer_write(Cur, c, 0, "textDocument/didChange", canContinue),
              Act("textDocument/didChange", c, 0, 0))

\* A chunk of data with one or two response frames arrives on socket s.
Data(s, ids, uids, bad, discard) ==
    /\ Receiving(s)
    /\ cl[socks[s].owner].arrived + Len(ids) <= MaxChunks
    /\ Commit(reader_on_data(Cur, socks[s].owner, ids, uids, bad, discard),
              Act("Data", socks[s].owner, s, ids[1]))

\* The asynchronous work of the filter for frame n of client c is done.
FilterDone(c, n) ==
    /\ n \in cl[c].awaiting
    /\ Commit(reader_filter_done(Cur, c, n), Act("FilterDone", c, 0, 0))

SockDrain(s) ==
    /\ socks[s].state = "open"
    /\ cl[socks[s].owner].draining
    /\ Commit([Cur EXCEPT !.cl[socks[s].owner].draining = FALSE],
              Act("SockDrain", socks[s].owner, s, 0))

NextSocket ==
    \E s \in Sockets :
        \/ SockConnect(s)
        \/ SockConnectTimeout(s)
        \/ SockError(s)
        \/ SockClose(s)

NextManager ==
    \/ RetryTick
    \/ DisconnectedResume
    \/ \E c \in Clients, ok \in BOOLEAN : ClientStartSettled(c, ok)
    \/ \E c \in Clients : CapabilitiesTimeout(c)
    \/ StatusItemClick
    \/ \E item \in {"Retry", "Open workspace with Godot Editor", "Ignore"} :
           PromptAnswer(item)

NextNotification ==
    \/ \E s \in Sockets, differs \in BOOLEAN :
           \E method \in {"gdscript_client/changeWorkspace", "gdscript/capabilities"} :
               Notification(s, method, differs)
    \/ \E c \in Clients : CheckWorkspaceResume(c)

NextMessage ==
    \/ \E c \in Clients, method \in Methods, canContinue \in BOOLEAN :
           SendRequest(c, method, canContinue)
    \/ \E s \in Sockets, id \in ReqIds : Response(s, id)
    \/ \E s \in Sockets : SockDrain(s)

Next == NextSocket \/ NextManager \/ NextNotification

Spec == Init /\ [][Next]_vars

SpecWide == InitWide /\ [][Next]_vars

\* Client sessions with their requests and responses, without backpressure:
\* the connection, the workspace check, the disconnection and the disposal
\* that follows it, the reconnection the user asks for.
NextSession ==
    \/ NextSocket
    \/ \E c \in Clients, method \in Methods : SendRequest(c, method, TRUE)
    \/ \E s \in Sockets, id \in ReqIds : Response(s, id)
    \/ \E s \in Sockets, id \in ReqIds : ResponseError(s, id)
    \/ \E s \in Sockets, id \in ReqIds : ServerRequest(s, id)
    \/ DisconnectedResume
    \/ StatusItemClick
    \/ \E s \in Sockets, differs \in BOOLEAN :
           Notification(s, "gdscript_client/changeWorkspace", differs)
    \/ \E c \in Clients : CheckWorkspaceResume(c)

SpecMsg == Init /\ [][NextSession]_vars

\* Client sessions with the frames the library writes, with backpressure.
NextFlow ==
    \/ NextSocket
    \/ \E c \in Clients, canContinue \in BOOLEAN : SendNotification(c, canContinue)
    \/ \E s \in Sockets : SockDrain(s)
    \/ DisconnectedResume
    \/ StatusItemClick
    \/ \E s \in Sockets, differs \in BOOLEAN :
           Notification(s, "gdscript_client/changeWorkspace", differs)
    \/ \E c \in Clients : CheckWorkspaceResume(c)

SpecFlow == Init /\ [][NextFlow]_vars

\* The socket's drain event comes once its buffer has emptied, and the
\* DISCONNECTED handler resumes once the old client is disposed.
FairFlow ==
    /\ WF_vars(\E s \in Sockets : SockDrain(s))
    /\ WF_vars(DisconnectedResume)

SpecFlowFair == Init /\ [][NextFlow]_vars /\ FairFlow

\* Sessions with the retry timer and one more socket, without
\* backpressure: a retry can begin while the attempt before it is pending
\* and the library is writing.
InitFlowRetry ==
    Started /\ lim = [sockets |-> MaxSockets + 1, clients |-> MaxClients]

NextFlowRetry ==
    \/ NextSocket
    \/ \E c \in Clients : SendNotification(c, TRUE)
    \/ RetryTick
    \/ DisconnectedResume
    \/ StatusItemClick
    \/ \E s \in Sockets, differs \in BOOLEAN :
           Notification(s, "gdscript_client/changeWorkspace", differs)
    \/ \E c \in Clients : CheckWorkspaceResume(c)

SpecFlowRetry == InitFlowRetry /\ [][NextFlowRetry]_vars

\* The manager with the headless server: lsp.headless on or off, the
\* startLanguageServer command, the retries and the prompt.
NextHeadless ==
    \/ NextSocket
    \/ \E who \in Callers, ok \in BOOLEAN : StartServerValidated(who, ok)
    \/ \E who \in Callers : StartServerSpawn(who)
    \/ StartLanguageServerCommand
    \/ RetryTick
    \/ DisconnectedResume
    \/ StatusItemClick
    \/ \E item \in {"Retry", "Open workspace with Godot Editor", "Ignore"} :
           PromptAnswer(item)

SpecHeadless == InitHeadless /\ [][NextHeadless]_vars

\* The manager's retry cycle with room for every attempt that
\* lsp.autoReconnect.attempts allows: the client's events, the retry timer,
\* the status item, the workspace check that rejects a client.
InitRetry ==
    Started /\ lim = [sockets |-> MaxSockets + 1, clients |-> MaxClients + 1]

NextRetry ==
    \/ NextSocket
    \/ RetryTick
    \/ DisconnectedResume
    \/ \E c \in Clients : ClientStartSettled(c, FALSE)
    \/ StatusItemClick
    \/ \E s \in Sockets :
           Notification(s, "gdscript_client/changeWorkspace", TRUE)
    \/ \E c \in Clients : CheckWorkspaceResume(c)

SpecRetry == InitRetry /\ [][NextRetry]_vars

ReadMethods == {"textDocument/hover", "textDocument/documentLink"}

Chunks == {<<i>> : i \in ReqIds} \cup {<<i, j>> : i, j \in ReqIds}

\* Client sessions with the responses the server sends.
NextRead ==
    \/ NextSocket
    \/ \E c \in Clients, method \in ReadMethods : SendRequest(c, method, TRUE)
    \/ \E s \in Sockets, ids \in Chunks, uids, bad, discard \in BOOLEAN :
           Data(s, ids, uids, bad, discard)
    \/ \E c \in Clients, n \in 1..MaxChunks : FilterDone(c, n)
    \/ DisconnectedResume

SpecRead == Init /\ [][NextRead]_vars

\* ---------------------------------------------------------------------
\* Properties

\* The last macrotask emitted event e.
Emitted(e) == \E k \in 1..Len(out) : out[k] = e

SocketHandlers == {"SockConnect", "SockConnectTimeout", "SockError", "SockClose"}

\* The sockets of client c's transport that are connected.
OpenSockets(c) == {s \in Sockets : socks[s].owner = c /\ socks[s].state = "open"}

\* C1: whatever the sequence of MessageIO.connect calls, overlapping ones
\* included, a transport has at most one open socket at any time, and no
\* handler of a socket runs once a later connect call of that transport has
\* begun (the handler that ran last belongs to the newest socket).
C1_SingleLiveSocket ==
    /\ \A c \in Clients : Cardinality(OpenSockets(c)) <= 1
    /\ last.act \in SocketHandlers => last.s = cl[last.c].newest

\* C2: every connection attempt that ends by timeout, by socket error or by
\* close before success emits 'disconnected' and rejects the promise of
\* connect.
C2_FailedAttemptEmitsAndRejects ==
    (last.act \in {"SockConnectTimeout", "SockError", "SockClose"}
        /\ last.was = "connecting")
    => (Emitted("disconnected") /\ Emitted("reject"))

\* ---- a server that never answers: every attempt fails
NextFail ==
    \/ \E s \in Sockets : SockConnectTimeout(s) \/ SockError(s) \/ SockClose(s)
    \/ RetryTick
    \/ DisconnectedResume
    \/ StatusItemClick
    \/ \E item \in {"Retry", "Open workspace with Godot Editor", "Ignore"} :
           PromptAnswer(item)

\* The timers fire and the suspended handler resumes: the connection
\* timeout of a pending attempt, the retry interval, the continuation of
\* the DISCONNECTED handler.
FairFail ==
    /\ WF_vars(\E s \in Sockets : SockConnectTimeout(s))
    /\ WF_vars(RetryTick)
    /\ WF_vars(DisconnectedResume)

SpecFail == InitFail /\ [][NextFail]_vars /\ FairFail

\* An attempt is under way.
Attempting == \E s \in Sockets : socks[s].state = "connecting"

\* The run may still create a socket, a client and a prompt.
RoomLeft ==
    /\ Cardinality({s \in Sockets : socks[s].state # "none"}) < lim.sockets
    /\ Cardinality({c \in Clients : cl[c].exists}) < lim.clients
    /\ mgr.prompts < MaxPrompts

\* C3: when every attempt fails, the first one at start-up included, the
\* Manager does not stay PENDING forever: once the attempt is over, it
\* eventually retries, or it reaches DISCONNECTED with the user prompted.
C3_PendingIsLeft ==
    (mgr.status = "PENDING" /\ ~Attempting /\ RoomLeft)
    ~> \/ Attempting
       \/ mgr.status = "DISCONNECTED" /\ mgr.prompts > 0
       \/ ~RoomLeft

\* C4: across consecutive failed attempts of retry_connect_client against
\* the EDITOR target with an ambiguous port, the ports handed to the
\* transport strictly alternate between 6005 and 6008, also when each
\* failure replaces the client.
C4_RetryPortsAlternate ==
    \A k \in 1..(Len(mgr.retryPorts) - 1) :
        mgr.retryPorts[k] # mgr.retryPorts[k + 1]

Discarded ==
    /\ last.act \in Methods
    /\ ~cl[last.c].disposed
    /\ IF cl[last.c].rejected
       THEN last.act # "shutdown"
       ELSE last.act \in {"workspace/didChangeWatchedFiles", "workspace/symbol"}

\* C6: a request the filter discards is never written to the transport and
\* no pending entry is recorded for it.
C6_DiscardedLeavesNoTrace ==
    Discarded => (~Emitted("io.write") /\ last.id \notin cl[last.c].sent)

\* C7: a CONNECTED handler that resumes after its awaits declares the
\* Manager CONNECTED, fires the ready event and clears the retry flag only
\* if its client is still the current one and has not reported
\* DISCONNECTED or REJECTED since.
C7_ContinuationRevalidates ==
    Emitted("lspReady")
    => /\ mgr.declaredFor = mgr.client
       /\ ~cl[mgr.client].disposed
       /\ cl[mgr.client].status = "CONNECTED"

\* C8: when a changeWorkspace notification reports a different path, the
\* workspace check tears the client's socket down and marks the client
\* rejected; the close that follows makes the client REJECTED and the
\* Manager WRONG_WORKSPACE with the retry flag clear, so that the retry
\* timer connects no more.
C8_MismatchRejects ==
    /\ last.act = "CheckWorkspaceResume"
       => /\ cl[last.c].rejected
          /\ \E s \in Sockets : socks[s].owner = last.c /\ socks[s].state = "closing"
    /\ (last.act = "SockClose" /\ last.was = "closing")
       => /\ cl[last.c].status = "REJECTED"
          /\ mgr.status = "WRONG_WORKSPACE"
          /\ ~mgr.retry

UserActions == {"StatusItemClick", "PromptAnswer"}

\* C9: once the Manager is in WRONG_WORKSPACE it stays there, with the
\* retry flag clear, until the user acts (status bar click, Retry in the
\* prompt, start-server command): no timer tick and no continuation of an
\* earlier handler moves it.
C9_WrongWorkspaceIsSticky ==
    [][(mgr.status = "WRONG_WORKSPACE" /\ last'.act \notin UserActions)
       => (mgr'.status = "WRONG_WORKSPACE" /\ ~mgr'.retry)]_vars

\* C10: when the client connects and the capabilities notification never
\* arrives, the 30 s timer makes the Manager CONNECTED, with
\* reconnectionAttempts back to 0 and the retry flag clear.
C10_CapabilitiesTimeoutConnects ==
    last.act = "CapabilitiesTimeout"
    => /\ mgr.status = "CONNECTED"
       /\ mgr.reconnectionAttempts = 0
       /\ ~mgr.retry

\* The timer has fired for the current client, which is connected and
\* whose capabilities never arrived.
C10_Witness ==
    /\ last.act = "CapabilitiesTimeout"
    /\ last.c = mgr.client
    /\ cl[last.c].status = "CONNECTED"
    /\ ~mgr.capabilitiesReceived
    /\ mgr.status = "CONNECTED"

\* C11: the Manager never calls connect on a client instance that has
\* reported DISCONNECTED or has been disposed: every connect is issued on
\* a client that is still in use, also when the retry timer or a user
\* command fires while the old client is being disposed.
C11_ConnectOnLiveClient ==
    Emitted("io.connect") => ~cl[last.c].disposed

\* The retry timer has just found the attempts used up.
GaveUp == last.act = "RetryTick" /\ Emitted("prompt")

\* C12: while every attempt fails, auto-retry makes at most
\* lsp.autoReconnect.attempts connect attempts; when it gives up the retry
\* flag is cleared, the Manager is DISCONNECTED and the user is prompted;
\* from then on no connect attempt is made without a user action.
C12_RetryGivesUp ==
    [][/\ (Len(mgr.retryPorts) <= MaxAttempts)'
       /\ (mgr.reconnectionAttempts = Len(mgr.retryPorts))'
       /\ (GaveUp => /\ ~mgr.retry
                     /\ mgr.status = "DISCONNECTED"
                     /\ mgr.prompts > 0
                     /\ ~Emitted("io.connect"))'
       /\ (mgr.reconnectionAttempts >= MaxAttempts /\ last'.act \notin UserActions)
          => (~Emitted("io.connect"))']_vars

\* The retry timer has given up after the last attempt allowed.
C12_Witness ==
    /\ last.act = "RetryTick"
    /\ Emitted("prompt")
    /\ Len(mgr.retryPorts) = MaxAttempts
    /\ ~mgr.retry
    /\ mgr.status = "DISCONNECTED"

\* The write that ran last had to queue its frame: no socket, or the
\* socket under backpressure.
MustQueue(c) == cl[c].socket = NoSocket \/ cl[c].draining

\* C13: the outbox (messageCache) never holds more than MAX_MESSAGE_CACHE
\* frames; a write that finds the outbox full drops the incoming frame and
\* leaves the outbox, the socket and the backpressure flag as they were.
C13_OutboxBounded ==
    [][/\ (\A c \in Clients : Len(cl[c].messageCache) <= MAX_MESSAGE_CACHE)'
       /\ LET c == last'.c
          IN /\ Emitted("drop")'
                => /\ Len(cl[c].messageCache) = MAX_MESSAGE_CACHE
                   /\ cl'[c].messageCache = cl[c].messageCache
                   /\ socks' = socks
                   /\ cl'[c].socket = cl[c].socket
                   /\ cl'[c].draining = cl[c].draining
             /\ (Emitted("io.write")' /\ MustQueue(c)
                   /\ Len(cl[c].messageCache) = MAX_MESSAGE_CACHE)
                => Emitted("drop")']_vars

\* A write has just found the outbox full and dropped its frame.
C13_Witness ==
    /\ Emitted("drop")
    /\ Len(cl[last.c].messageCache) = MAX_MESSAGE_CACHE
    /\ cl[last.c].frames \notin {cl[last.c].messageCache[k] :
                                    k \in 1..Len(cl[last.c].messageCache)}

\* C14: no frame placed in the outbox before a connect call began is ever
\* written to the socket that call opened (every frame on a socket's wire
\* was submitted after its connect call began), and the outbox is empty
\* immediately after connect begins.
C14_NoStaleFrames ==
    /\ \A s \in Sockets : \A k \in 1..Len(socks[s].wire) :
           socks[s].wire[k] > socks[s].since
    /\ Emitted("io.connect") => cl[last.c].messageCache = <<>>

\* A connect call has just begun on a transport whose outbox held frames.
C14_Witness ==
    /\ Emitted("clear")
    /\ Emitted("io.connect")
    /\ cl[last.c].frames > 0
    /\ cl[last.c].messageCache = <<>>

\* The frames of sequence q.
Frames(q) == {q[k] : k \in 1..Len(q)}

\* C15: frames reach the socket in the order of the write calls: no frame
\* is on the wire while a frame submitted earlier still waits in the
\* outbox, also after backpressure has cleared; and the wire itself is in
\* call order.
C15_WireInCallOrder ==
    \A s \in Sockets :
        /\ \A j, k \in 1..Len(socks[s].wire) :
               j < k => socks[s].wire[j] < socks[s].wire[k]
        /\ socks[s].state = "open"
           => \A g \in Frames(socks[s].wire),
                 f \in Frames(cl[socks[s].owner].messageCache) : g < f

\* C16: incoming frames are handed to the reader callback in arrival
\* order, also when the response filter of an earlier frame still awaits
\* asynchronous work while a later chunk arrives: no frame is delivered
\* before a frame that arrived earlier.
C16_DeliveredInArrivalOrder ==
    \A c \in Clients :
        /\ \A j, k \in 1..Len(cl[c].delivered) :
               j < k => cl[c].delivered[j] < cl[c].delivered[k]
        /\ \A d \in Frames(cl[c].delivered), n \in cl[c].awaiting : d < n

\* C17: when disposeClient returns, the pending-request table and the
\* outbox are empty, the socket reference is null and the socket it
\* referred to is destroyed, the filters are the identity and the
\* 'connected', 'disconnected', reader and status listeners are removed
\* (the client is marked disposed); also when the client never connected.
C17_DisposeLeavesNothing ==
    [][Emitted("disposeClient")'
       => LET c == last'.c
          IN /\ cl'[c].disposed
             /\ cl'[c].sent = {}
             /\ cl'[c].links = {}
             /\ cl'[c].messageCache = <<>>
             /\ cl'[c].socket = NoSocket
             /\ cl[c].socket # NoSocket => socks'[cl[c].socket].state = "dead"]_vars

\* disposeClient has just returned for a client that had requests pending.
C17_Witness ==
    /\ Emitted("disposeClient")
    /\ Emitted("sentMessages.clear")
    /\ cl[last.c].disposed
    /\ cl[last.c].sent = {}
    /\ \E i \in ReqIds : cl[last.c].removed[i] = 1

\* The program state of a state record, without the events emitted.
StateOf(S) == <<S.socks, S.cl, S.mgr, S.hconn, S.hdisc, S.wsCheck>>

EventsOf(S) == {S.out[k] : k \in 1..Len(S.out)}

\* C18: calling disposeClient twice on the same client raises no error,
\* and the state after the second call equals the state after the first:
\* the second call clears no entry and destroys no socket.
C18_DisposeIdempotent ==
    \A c \in Clients :
        cl[c].exists
        => LET once == disposeClient(Cur, c)
               twice == disposeClient([once EXCEPT !.out = <<>>], c)
           IN /\ StateOf(twice) = StateOf(once)
              /\ EventsOf(twice) = {"disposeClient"}

\* A client with requests pending and a connected socket: the first
\* disposeClient changes the state.
C18_Witness ==
    \E c \in Clients :
        /\ cl[c].exists
        /\ ~cl[c].disposed
        /\ cl[c].sent # {}
        /\ cl[c].socket # NoSocket
        /\ StateOf(disposeClient(Cur, c)) # StateOf(Cur)

\* C19: when the underlying sendRequest rejects, send_request does not
\* propagate the rejection: a warning is logged and the caller receives
\* no result.
C19_RejectionIsSwallowed ==
    Emitted("sendRequest.reject")
    => Emitted("log.warn") /\ ~Emitted("send_request.reject")

\* C20: an incoming frame whose payload fails to parse is fatal for its
\* connection: the socket does not stay open with the frame skipped, the
\* client reports the disconnect that starts the reconnect cycle.
C20_MalformedFrameIsFatal ==
    Emitted("SyntaxError")
    => /\ socks[last.s].state # "open"
       /\ Emitted("disconnected")

\* C21: the status of a client only changes from PENDING to CONNECTED,
\* from CONNECTED to DISCONNECTED or to REJECTED, or to PENDING in a call of
\* connect; CONNECTED is entered from PENDING only.
C21_StatusTransitions ==
    [][\A c \in Clients :
          cl'[c].status # cl[c].status
          => \/ cl[c].status = "PENDING" /\ cl'[c].status = "CONNECTED"
             \/ cl[c].status = "CONNECTED"
                /\ cl'[c].status \in {"DISCONNECTED", "REJECTED"}
             \/ cl'[c].status = "PENDING" /\ Emitted("io.connect")']_vars

\* C22: with the headless server as the target, the Manager issues the
\* client connect only after a free port has been allocated and the server
\* process spawned: not when the validation of the project or of the
\* executable failed, and not before the spawn when the startLanguageServer
\* command is used.
C22_ConnectAfterSpawn ==
    (Emitted("io.connect") /\ mgr.target = "HEADLESS")
    => /\ mgr.lsp = "running"
       /\ cl[mgr.client].port = FreePort

\* How often the last macrotask emitted event e.
Count(e) == Cardinality({k \in 1..Len(out) : out[k] = e})

\* C23: for any one socket 'disconnected' is emitted at most once, in
\* whichever order its error and close callbacks occur, and a successful
\* attempt emits 'connected' exactly once. A callback emits the event once,
\* for a socket that was alive; the socket that disconnected is destroyed
\* and stays so, and a socket that connected never connects again.
C23_OneEventPerSocket ==
    [][/\ Count("disconnected")' <= 1
       /\ Count("connected")' <= 1
       /\ Emitted("disconnected")'
          => /\ last'.act \in {"SockError", "SockClose"}
             /\ socks[last'.s].state \in {"connecting", "open", "closing"}
             /\ socks'[last'.s].state = "dead"
       /\ Emitted("connected")'
          => /\ last'.act = "SockConnect"
             /\ socks[last'.s].state = "connecting"
       /\ last'.act = "SockConnect"
          => Count("connected")' = 1 /\ socks'[last'.s].state = "open"
       /\ \A s \in Sockets :
              /\ socks[s].state = "dead" => socks'[s].state = "dead"
              /\ socks[s].state \notin {"none", "connecting"}
                 => socks'[s].state # "connecting"]_vars

\* A socket that connected has closed: 'disconnected' was emitted for it.
C23_Witness ==
    /\ last.act = "SockClose"
    /\ last.was = "open"
    /\ Count("disconnected") = 1
    /\ socks[last.s].state = "dead"

\* The sockets that later connect calls of the same transport created and
\* that are alive.
Newer(s) ==
    {n \in Sockets : /\ n > s
                     /\ socks[n].owner = socks[s].owner
                     /\ socks[n].state \in {"connecting", "open"}}

\* C24: the error or close callback of a socket that a later connect call
\* of its transport has replaced tears down no newer socket: the reference
\* to the current socket is left as it is, and no newer socket is destroyed
\* by what the 'disconnected' event sets off (the client's handler, the
\* Manager's replacement of the client).
C24_StaleCallbackIsHarmless ==
    [][\A s \in Sockets :
          (/\ last'.act \in {"SockError", "SockClose"}
           /\ last'.s = s
           /\ socks[s].state \in {"connecting", "open", "closing"}
           /\ cl[socks[s].owner].socket # s
           /\ Newer(s) # {})
          => /\ cl'[socks[s].owner].socket = cl[socks[s].owner].socket
             /\ \A n \in Newer(s) : socks'[n].state = socks[n].state]_vars

\* Frame n of client c waits in the outbox of a connected transport: it was
\* queued because the socket was back-pressured.
QueuedBehind(c, n) ==
    /\ cl[c].socket # NoSocket
    /\ \E k \in 1..Len(cl[c].messageCache) : cl[c].messageCache[k] = n

\* Frame n of client c is on the wire of one of the client's sockets.
OnWire(c, n) ==
    \E s \in Sockets :
        /\ socks[s].owner = c
        /\ \E k \in 1..Len(socks[s].wire) : socks[s].wire[k] = n

\* C25: a frame queued in the outbox because the transport was
\* back-pressured is eventually written to a socket, when the pressure
\* clears or on a fresh connect (a frame dropped by overflow never enters
\* the outbox).
C25_QueuedIsWritten ==
    \A c \in Clients, n \in 1..MaxFrames :
        QueuedBehind(c, n) ~> OnWire(c, n)

\* Socket s of client c is connecting and frame n was handed to the writer
\* after the connect call for s began.
Establishing(c, s, n) ==
    /\ socks[s].owner = c
    /\ socks[s].state = "connecting"
    /\ socks[s].since < n

\* C26: on a successful connect every frame written while the connection
\* was being established is written to the new socket in FIFO order before
\* 'connected' is emitted, and the outbox is empty when it is emitted. The
\* connect handler writes the outbox as it is, in order, before the event;
\* and a frame that entered the outbox while a socket was connecting stays
\* there as long as that socket is connecting.
C26_FlushBeforeConnected ==
    [][/\ last'.act = "SockConnect"
          => LET s == last'.s
                 c == socks[s].owner
             IN /\ socks'[s].wire = socks[s].wire \o cl[c].messageCache
                /\ cl'[c].messageCache = <<>>
                /\ Count("connected")' = 1
                /\ Count("socket.write")' = Len(cl[c].messageCache)
                /\ \A j, k \in 1..Len(out') :
                       (out'[j] = "socket.write" /\ out'[k] = "connected")
                       => j < k
       /\ \A c \in Clients, s \in Sockets :
              \A n \in Frames(cl[c].messageCache) :
                  (Establishing(c, s, n) /\ socks'[s].state = "connecting")
                  => n \in Frames(cl'[c].messageCache)]_vars

\* C27: when the client needs starting, the Manager does not move from
\* INITIALIZING_CLIENT to CONNECTED before the capability announcement has
\* been received or the capability timeout has elapsed.
C27_ConnectedAfterCapabilities ==
    [][(mgr.status = "INITIALIZING_CLIENT" /\ mgr'.status = "CONNECTED")
       => \/ mgr'.capabilitiesReceived
          \/ last'.act = "CapabilitiesTimeout"]_vars

\* The place of the first event e among the events of the last macrotask.
First(e) == CHOOSE k \in 1..Len(out) : out[k] = e /\ \A j \in 1..(k - 1) : out[j] # e

\* C28: on a DISCONNECTED event of the client the Manager fires the
\* server-lost signal before it disposes of the old client, and when the
\* handler has completed the Manager's client is a new instance, different
\* from the one that disconnected.
C28_SignalThenReplace ==
    [][/\ Emitted("lspDisconnected")'
          => /\ Emitted("disposeClient")'
             /\ First("lspDisconnected")' < First("disposeClient")'
             /\ mgr.client = last'.c
             /\ mgr'.client = last'.c
             /\ ~cl[last'.c].disposed
             /\ cl'[last'.c].disposed
             /\ cl'[last'.c].status = "DISCONNECTED"
       /\ last'.act = "DisconnectedResume"
          => /\ mgr'.client # mgr.client
             /\ cl[mgr.client].disposed
             /\ ~cl[mgr'.client].exists
             /\ cl'[mgr'.client].exists
             /\ ~cl'[mgr'.client].disposed]_vars

\* The DISCONNECTED handler has completed: the client that disconnected is
\* disposed of and another instance is the Manager's client.
C28_Witness ==
    /\ last.act = "DisconnectedResume"
    /\ mgr.client # last.c
    /\ cl[last.c].disposed
    /\ cl[last.c].status = "DISCONNECTED"
    /\ cl[mgr.client].exists
    /\ hdisc.pending = 0

\* retry_connect_client found the attempts used up: it shows the prompt. A
\* click on the status item in RETRYING shows the prompt and nothing else.
Exhausted ==
    /\ Emitted("prompt")
    /\ last.act \in {"RetryTick", "StatusItemClick"}
    /\ last.was = "none"
    /\ mgr.status = "DISCONNECTED"

\* C29: the retry timer starts a connect attempt only while the auto-retry
\* flag is set; the flag is set when the handler of a client DISCONNECTED
\* event has completed, it is cleared by a REJECTED event, and it is clear
\* when the Manager has declared CONNECTED, as long as it stays CONNECTED,
\* and when the attempts are exhausted.
C29_RetryFlag ==
    [][/\ (last'.act = "RetryTick" /\ Emitted("io.connect")') => mgr.retry
       /\ last'.act = "DisconnectedResume" => mgr'.retry
       /\ (/\ Emitted("status")'
           /\ ~cl[last'.c].disposed
           /\ cl'[last'.c].status = "REJECTED")
          => ~mgr'.retry /\ mgr'.status = "WRONG_WORKSPACE"
       /\ mgr'.status = "CONNECTED" => ~mgr'.retry
       /\ Exhausted' => ~mgr'.retry]_vars

\* The retry timer has used up the attempts and cleared the flag.
C29_Witness ==
    /\ Exhausted
    /\ last.act = "RetryTick"
    /\ mgr.reconnectionAttempts = MaxAttempts
    /\ ~mgr.retry

\* C30: when check_workspace resumes after awaiting the project directory
\* and the socket it was started for has been closed or replaced, it does
\* nothing: it does not fail on a missing socket, it destroys no other
\* socket and it does not mark the client rejected.
C30_StaleCheckDoesNothing ==
    [][(/\ last'.act = "CheckWorkspaceResume"
        /\ cl[last'.c].socket # wsCheck[last'.c])
       => /\ ~Emitted("TypeError")'
          /\ socks' = socks
          /\ cl' = cl]_vars

C32_ServerRequestKeepsEntry ==
    [][last'.act = "ServerRequest"
       => \A c \in Clients : cl'[c].sent = cl[c].sent]_vars

\* C33: the backpressure flag does not survive a connection: when a socket
\* has just become the current socket of a transport, the flag of that
\* transport is clear, so the next write is handed to the socket.
C33_FreshSocketIsNotDraining ==
    (last.act = "SockConnect" /\ cl[last.c].socket = last.s)
    => ~cl[last.c].draining

\* C34: after disposeClient no socket of that client is open, at once or
\* later: a connect attempt that was in flight at disposal does not leave
\* an open socket owned by the disposed client.
C34_NoOpenSocketAfterDispose ==
    \A s \in Sockets :
        socks[s].state = "open" => ~cl[socks[s].owner].disposed

\* C35: every time the Manager, being CONNECTED, is told by its client
\* that the connection ended (plain disconnect or workspace rejection),
\* the dependents are told in the same handler: the server-lost signal is
\* fired and the connectedToLSP context is set to false.
C35_DependentsAreTold ==
    [][(/\ mgr.status = "CONNECTED"
        /\ last'.act \in {"SockError", "SockClose"}
        /\ \E k \in 1..Len(out') : out'[k] = "status")
       => /\ ~mgr'.connectedToLSP
          /\ \E k \in 1..Len(out') : out'[k] = "lspDisconnected"]_vars

\* C36: every change of the Manager status is published on the
\* status-change stream: the value fired last on onStatusChanged is the
\* current status, also after the change to DISCONNECTED that is made when
\* the retry attempts are exhausted.
C36_StatusIsPublished == mgr.fired = mgr.status

\* C37: in every reachable state the reconnection attempt counter is
\* between 0 and the configured maximum of attempts.
C37_AttemptsWithinBounds ==
    /\ mgr.reconnectionAttempts >= 0
    /\ mgr.reconnectionAttempts <= MaxAttempts

\* With the counter at the maximum, the status item was clicked: no
\* attempt was made and the counter stayed.
C37_Witness ==
    /\ last.act = "StatusItemClick"
    /\ Emitted("prompt")
    /\ ~Emitted("io.connect")
    /\ mgr.reconnectionAttempts = MaxAttempts

\* C38: while a client is marked rejected, the only outgoing request its
\* request filter lets through is shutdown; every other request handed to
\* the filter is discarded: it is not written and no pending entry is
\* recorded for it. The mark lasts until the next connect call.
C38_RejectedPassesOnlyShutdown ==
    /\ (last.act \in Methods /\ cl[last.c].rejected /\ ~cl[last.c].disposed)
       => IF last.act = "shutdown"
          THEN Emitted("io.write")
          ELSE ~Emitted("io.write") /\ last.id \notin cl[last.c].sent
    /\ (last.act \in UserActions /\ Emitted("io.connect"))
       => ~cl[last.c].rejected

\* A rejected client handed a hover request to its filter, after an
\* earlier request of its own was stored: the request was discarded.
C38_Witness ==
    /\ last.act = "textDocument/hover"
    /\ cl[last.c].rejected
    /\ ~cl[last.c].disposed
    /\ ~Emitted("io.write")
    /\ last.id > 1

\* C39: a capability announcement that a client receives while the wait
\* of its CONNECTED handler is pending is not lost: the wait completes with
\* it (the Manager is declared CONNECTED and the ready event is fired) and
\* its timeout timer is cancelled, so that the wait settles exactly once.
C39_AnnouncementCompletesWait ==
    [][(last'.act = "gdscript/capabilities" /\ hconn[last'.c] = "caps")
       => /\ hconn'[last'.c] = "done"
          /\ \E k \in 1..Len(out') : out'[k] = "lspReady"]_vars

====
